---- MODULE Spec2Model ----
(***************************************************************************)
(* A model of the LTS class of examples/simple_lts.py (local Thompson      *)
(* sampling with a Normal-Normal conjugate update) and of the calls its    *)
(* driver makes on it.                                                     *)
(*                                                                         *)
(* Python floats are IEEE-754 binary64 numbers.  The model keeps the       *)
(* arithmetic of the format (round to nearest, ties to even; gradual       *)
(* underflow; overflow to infinity; NaN) and scales its widths down: a     *)
(* float is an integer count of the smallest subnormal, 2^-FracBits, with  *)
(* at most PrecBits significant bits.  The zeros -0.0 and 0.0 are one      *)
(* value: the class compares and adds them, and never divides by one.      *)
(***************************************************************************)
EXTENDS Integers, Sequences, FiniteSets, TLC

\* ------------------------------------------------------------------------
\* Bounds of the model
\* ------------------------------------------------------------------------
PrecBits == 3      \* significant bits of a float (53 in binary64)
FracBits == 4      \* the smallest subnormal is 2^-FracBits (2^-1074)
ExpSpan == 6       \* the largest float is (2^PrecBits - 1) * 2^ExpSpan subnormals (2045)
MaxN == 2          \* largest number of arms constructed
MaxCalls == 4      \* calls the driver makes on one bandit
PairCalls == 2     \* calls the driver makes on each of two bandits
StreamLen == 2     \* period of the pseudorandom stream

\* ------------------------------------------------------------------------
\* Floats
\* ------------------------------------------------------------------------
RECURSIVE Pow2(_)
Pow2(n) == IF n <= 0 THEN 1 ELSE 2 * Pow2(n - 1)

One == Pow2(FracBits)                          \* the float 1.0
MaxFloat == (Pow2(PrecBits) - 1) * Pow2(ExpSpan)  \* sys.float_info.max
Inf == MaxFloat + 1                            \* float("inf")
NaN == MaxFloat + 2                            \* float("nan")

Abs(x) == IF x < 0 THEN -x ELSE x
Sgn(x) == IF x < 0 THEN -1 ELSE 1

RECURSIVE BitLen(_)
BitLen(k) == IF k <= 0 THEN 0 ELSE 1 + BitLen(k \div 2)

\* Distance between neighbouring floats at magnitude k.
Ulp(k) == IF k < Pow2(PrecBits) THEN 1 ELSE Pow2(BitLen(k) - PrecBits)

\* The float nearest to the rational n/d (n >= 0, d > 0), ties to even,
\* infinity past the largest float.
RoundQ(n, d) ==
    LET q == n \div d
        u == Ulp(q)
        lo == (q \div u) * u
        hi == lo + u
        r == IF 2 * n < (lo + hi) * d THEN lo
             ELSE IF 2 * n > (lo + hi) * d THEN hi
             ELSE IF (lo \div u) % 2 = 0 THEN lo ELSE hi
    IN  IF r > MaxFloat THEN Inf ELSE r

\* float.__mul__
FMul(a, b) ==
    IF a = NaN \/ b = NaN THEN NaN
    ELSE IF Abs(a) = Inf \/ Abs(b) = Inf
         THEN IF a = 0 \/ b = 0 THEN NaN ELSE Sgn(a) * Sgn(b) * Inf
    ELSE Sgn(a) * Sgn(b) * RoundQ(Abs(a) * Abs(b), One)

\* float.__add__
FAdd(a, b) ==
    IF a = NaN \/ b = NaN THEN NaN
    ELSE IF Abs(a) = Inf /\ Abs(b) = Inf THEN (IF a = b THEN a ELSE NaN)
    ELSE IF Abs(a) = Inf THEN a
    ELSE IF Abs(b) = Inf THEN b
    ELSE Sgn(a + b) * RoundQ(Abs(a + b), 1)

\* float.__truediv__ for a divisor other than zero (a zero divisor raises
\* ZeroDivisionError, which the caller decides before dividing).
FDiv(a, b) ==
    IF a = NaN \/ b = NaN THEN NaN
    ELSE IF Abs(a) = Inf THEN (IF Abs(b) = Inf THEN NaN ELSE Sgn(a) * Sgn(b) * Inf)
    ELSE IF Abs(b) = Inf THEN 0
    ELSE Sgn(a) * Sgn(b) * RoundQ(Abs(a) * One, Abs(b))

RECURSIVE ISqrtFrom(_, _)
ISqrtFrom(x, s) == IF (s + 1) * (s + 1) > x THEN s ELSE ISqrtFrom(x, s + 1)

\* math.sqrt for an argument >= 0 (a negative one raises ValueError):
\* the float nearest to the square root.
FSqrt(a) ==
    IF a = NaN THEN NaN
    ELSE IF a = Inf THEN Inf
    ELSE LET x == a * One
             s == ISqrtFrom(x, 0)
             u == Ulp(s)
             lo == (s \div u) * u
             hi == lo + u
         IN  IF 4 * x < (lo + hi) * (lo + hi) THEN lo
             ELSE IF 4 * x > (lo + hi) * (lo + hi) THEN hi
             ELSE IF (lo \div u) % 2 = 0 THEN lo ELSE hi

\* float comparisons: every comparison with NaN is false.
FGt(a, b) == a # NaN /\ b # NaN /\ a > b
FLt(a, b) == a # NaN /\ b # NaN /\ a < b

\* ------------------------------------------------------------------------
\* Values the driver passes in
\* ------------------------------------------------------------------------
None == << >>                    \* Python's None
Some(i) == << i >>               \* an int where None may stand

Instances == {1, 2}
NSet == (-1)..MaxN                        \* N
MuSet == {0, One}                         \* init_mu
SdSet == {-One, 0, 1, One}                \* init_sd
NoiseSet == {0, 1, One \div 2, 4 * One}   \* observation_noise
RewardSet == {0, One, One + One \div 2}   \* reward
ZSet == {-One, 0, One}                    \* standard normal deviates

\* The values two bandits constructed alike are driven with.
PairMuSet == {One}
PairSdSet == {One}
PairNoiseSet == {One \div 2, 4 * One}
PairRewardSet == {0, One + One \div 2}
PairZSet == {-One, One}

VARIABLES
    bandits,     \* the LTS instances constructed so far, by instance
    random,      \* the module-level generator of the random module
    t,           \* calls the driver has made on each instance
    ret,         \* how the last call ended: its result or the exception raised
    args,        \* the arguments each instance was constructed with
    hist         \* per instance, the inputs consumed and the states passed through

vars == << bandits, random, t, ret, args, hist >>

\* ------------------------------------------------------------------------
\* class LTS
\* ------------------------------------------------------------------------
\* LTS.__init__: no argument is checked; range(0, N) is empty for N < 1.
LTSInit(N, init_mu, init_sd, observation_noise) ==
    [arms |-> [i \in 1..N |-> << init_mu, init_sd >>],
     observation_noise |-> observation_noise,
     last_arm_pulled |-> None]

\* random.gauss(mu, sigma) for the standard deviate z the generator yields.
gauss(mu, sigma, z) == FAdd(mu, FMul(z, sigma))

\* The k-th deviate (k = 0, 1, ..) the generator yields from its state.
Draw(k) == random.stream[(random.pos + k) % StreamLen]

\* max(iterable, key=...): the first item is kept until a later key is
\* strictly greater.  Positions are 1-based here, Python's are 0-based.
RECURSIVE MaxScanLast(_, _, _)
MaxScanLast(keys, i, best) ==
    IF i > Len(keys) THEN best
    ELSE MaxScanLast(keys, i + 1, IF ~FLt(keys[i], keys[best]) THEN i ELSE best)

RECURSIVE MaxScan(_, _, _)
MaxScan(keys, i, best) ==
    IF i > Len(keys) THEN best
    ELSE MaxScan(keys, i + 1, IF FGt(keys[i], keys[best]) THEN i ELSE best)

PyMaxLast(keys) == MaxScanLast(keys, 2, 1)

PyMax(keys) == MaxScan(keys, 2, 1)

\* The keys select computes: one gauss sample per arm, in index order.
Samples(self) ==
    [i \in 1..Len(self.arms) |-> gauss(self.arms[i][1], self.arms[i][2], Draw(i - 1))]

Deviates(self) == [i \in 1..Len(self.arms) |-> Draw(i - 1)]

\* The index select returns (0-based).
SelectedOneBased(self) == PyMax(Samples(self))

Selected(self) == PyMax(Samples(self)) - 1

\* The conjugate update of one belief, line by line.
arm_variance(arm) == FMul(arm[2], arm[2])
ob_variance(self) == FMul(self.observation_noise, self.observation_noise)
Denominator(arm, self) == FAdd(arm_variance(arm), ob_variance(self))

PosteriorMean(arm, self, reward) ==
    FDiv(FAdd(FMul(arm_variance(arm), reward), FMul(ob_variance(self), arm[1])),
         Denominator(arm, self))

PosteriorVar(arm, self) ==
    FDiv(FMul(arm_variance(arm), ob_variance(self)), Denominator(arm, self))

Posterior(arm, self, reward) ==
    << PosteriorMean(arm, self, reward), FSqrt(PosteriorVar(arm, self)) >>

\* The index update reads the arm at; None is no list index (TypeError).
PulledAsZero(self) == IF self.last_arm_pulled = None THEN Some(0) ELSE self.last_arm_pulled

Pulled(self) == self.last_arm_pulled

\* How update(reward) ends.
UpdateStatus(self, reward) ==
    IF Pulled(self) = None THEN "TypeError"
    ELSE IF Pulled(self)[1] + 1 \notin DOMAIN self.arms THEN "IndexError"
    ELSE LET arm == self.arms[Pulled(self)[1] + 1]
         IN  IF Denominator(arm, self) = 0 THEN "ZeroDivisionError"
             ELSE IF FLt(PosteriorVar(arm, self), 0) THEN "ValueError"
             ELSE "ok"

\* The instance after a successful update(reward).
Updated(self, reward) ==
    LET i == Pulled(self)[1] + 1
    IN  [self EXCEPT !.arms[i] = Posterior(self.arms[i], self, reward)]

\* Attribute assignment on one instance: no other instance is touched.
StoreShared(bs, b, self) ==
    [c \in DOMAIN bs |-> IF c = b THEN self ELSE [bs[c] EXCEPT !.arms = self.arms]]

Store(bs, b, self) == [bs EXCEPT ![b] = self]

\* ------------------------------------------------------------------------
\* The calls
\* ------------------------------------------------------------------------
\* bandit = LTS(N, init_mu, init_sd, observation_noise)
NewCall(b, N, init_mu, init_sd, observation_noise) ==
    /\ b \notin DOMAIN bandits
    /\ bandits' = (b :> LTSInit(N, init_mu, init_sd, observation_noise)) @@ bandits
    /\ t' = (b :> 0) @@ t
    /\ args' = (b :> << N, init_mu, init_sd, observation_noise >>) @@ args
    /\ ret' = [inst |-> b, op |-> "new", status |-> "ok", value |-> None,
               input |-> << N, init_mu, init_sd, observation_noise >>]
    /\ UNCHANGED random

\* bandit.select()
SelectCall(b) ==
    /\ b \in DOMAIN bandits
    /\ LET self == bandits[b]
       IN  IF Len(self.arms) = 0
           THEN \* max() arg is an empty sequence
                /\ ret' = [inst |-> b, op |-> "select", status |-> "ValueError",
                           value |-> None, input |-> << >>]
                /\ UNCHANGED << bandits, random >>
           ELSE /\ bandits' = Store(bandits, b,
                                    [self EXCEPT !.last_arm_pulled = Some(Selected(self))])
                /\ random' = [random EXCEPT !.pos = (@ + Len(self.arms)) % StreamLen]
                /\ ret' = [inst |-> b, op |-> "select", status |-> "ok",
                           value |-> Some(Selected(self)), input |-> Samples(self)]
    /\ t' = [t EXCEPT ![b] = @ + 1]
    /\ UNCHANGED args

\* bandit.update(reward)
UpdateCall(b, reward) ==
    /\ b \in DOMAIN bandits
    /\ LET self == bandits[b]
           status == UpdateStatus(self, reward)
       IN  /\ ret' = [inst |-> b, op |-> "update", status |-> status, value |-> None,
                      input |-> << reward >>]
           /\ IF status = "ok"
              THEN bandits' = Store(bandits, b, Updated(self, reward))
              ELSE UNCHANGED bandits
    /\ t' = [t EXCEPT ![b] = @ + 1]
    /\ UNCHANGED << random, args >>

\* ------------------------------------------------------------------------
\* One bandit and its driver
\* ------------------------------------------------------------------------
Init ==
    /\ bandits = << >>
    /\ random \in [stream : [0..(StreamLen - 1) -> ZSet], pos : {0}]
    /\ t = << >>
    /\ args = << >>
    /\ ret = [inst |-> 0, op |-> "none", status |-> "ok", value |-> None, input |-> << >>]
    /\ hist = << >>

New ==
    /\ \E N \in NSet, init_mu \in MuSet, init_sd \in SdSet, observation_noise \in NoiseSet :
          NewCall(1, N, init_mu, init_sd, observation_noise)
    /\ UNCHANGED hist

Select ==
    /\ 1 \in DOMAIN t /\ t[1] < MaxCalls
    /\ SelectCall(1)
    /\ UNCHANGED hist

Update ==
    /\ 1 \in DOMAIN t /\ t[1] < MaxCalls
    /\ \E reward \in RewardSet : UpdateCall(1, reward)
    /\ UNCHANGED hist

Next == New \/ Select \/ Update

Spec == Init /\ [][Next]_vars

\* ------------------------------------------------------------------------
\* Two bandits constructed alike, driven in any interleaving
\* ------------------------------------------------------------------------
PairInit ==
    /\ \E N \in 1..MaxN, init_mu \in PairMuSet, init_sd \in PairSdSet,
          observation_noise \in PairNoiseSet :
          /\ bandits = [b \in Instances |-> LTSInit(N, init_mu, init_sd, observation_noise)]
          /\ args = [b \in Instances |-> << N, init_mu, init_sd, observation_noise >>]
    /\ random \in [stream : [0..(StreamLen - 1) -> PairZSet], pos : {0}]
    /\ t = [b \in Instances |-> 0]
    /\ ret = [inst |-> 0, op |-> "none", status |-> "ok", value |-> None, input |-> << >>]
    /\ hist = [b \in Instances |-> << >>]

PairSelect ==
    \E b \in Instances :
        /\ t[b] < PairCalls
        /\ SelectCall(b)
        /\ hist' = [hist EXCEPT ![b] =
                      Append(@, [input |-> << "select", Deviates(bandits[b]) >>,
                                 state |-> bandits'[b]])]

PairUpdate ==
    \E b \in Instances, reward \in PairRewardSet :
        /\ t[b] < PairCalls
        /\ UpdateCall(b, reward)
        /\ hist' = [hist EXCEPT ![b] =
                      Append(@, [input |-> << "update", << reward >> >>,
                                 state |-> bandits'[b]])]

PairNext == PairSelect \/ PairUpdate

PairSpec == PairInit /\ [][PairNext]_vars

\* ------------------------------------------------------------------------
\* Steps, as the properties below read them
\* ------------------------------------------------------------------------
\* The step is a call of op on instance b.
Called(b, op) ==
    /\ b \in DOMAIN bandits
    /\ t'[b] = t[b] + 1
    /\ ret'.inst = b
    /\ ret'.op = op

FEq(a, b) == a # NaN /\ b # NaN /\ a = b

\* The arguments the constructor is documented to accept.
ValidArgs(N, init_mu, init_sd, observation_noise) ==
    N >= 1 /\ FGt(init_sd, 0) /\ FGt(observation_noise, 0)

\* Instance b was constructed with such arguments.
Valid(b) == ValidArgs(args[b][1], args[b][2], args[b][3], args[b][4])

ArmAt(self) == self.arms[self.last_arm_pulled[1] + 1]

\* ------------------------------------------------------------------------
\* Properties
\* ------------------------------------------------------------------------

\* C1: once select() has been called, update(reward) changes the belief of
\* exactly one arm, the one at last_selected, and leaves every other arm's
\* belief, the number of arms, observation_noise and last_selected as they were.
C1_UpdateChangesExactlyLastSelected ==
    [][\A b \in DOMAIN bandits :
          (/\ Valid(b) /\ Called(b, "update") /\ ret'.status = "ok"
           /\ bandits[b].last_arm_pulled # None) =>
              /\ ArmAt(bandits'[b]) # ArmAt(bandits[b])
              /\ Len(bandits'[b].arms) = Len(bandits[b].arms)
              /\ \A i \in DOMAIN bandits[b].arms :
                    i # bandits[b].last_arm_pulled[1] + 1 =>
                        bandits'[b].arms[i] = bandits[b].arms[i]
              /\ bandits'[b].observation_noise = bandits[b].observation_noise
              /\ bandits'[b].last_arm_pulled = bandits[b].last_arm_pulled]_vars

\* What does hold of update, for any arguments: belief is written to no arm
\* but the one at last_selected, and nothing else of the bandit changes.
UpdateFrame ==
    [][\A b \in DOMAIN bandits :
          (Called(b, "update") /\ bandits[b].last_arm_pulled # None) =>
              /\ bandits'[b] = [bandits[b] EXCEPT
                                  !.arms[bandits[b].last_arm_pulled[1] + 1] = ArmAt(bandits'[b])]
              /\ ret'.status = "ok" =>
                     ArmAt(bandits'[b]) = Posterior(ArmAt(bandits[b]), bandits[b], ret'.input[1])]_vars

\* C2: for N >= 1, after any calls, select() returns an integer i with
\* 0 <= i < N, last_selected equals that i right after the call, and no
\* arm's belief is changed by the call.
C2_SelectReturnsValidIndex ==
    [][\A b \in DOMAIN bandits :
          (Called(b, "select") /\ Len(bandits[b].arms) >= 1) =>
              /\ ret'.status = "ok"
              /\ ret'.value # None
              /\ ret'.value[1] \in 0..(Len(bandits[b].arms) - 1)
              /\ bandits'[b].last_arm_pulled = ret'.value
              /\ bandits'[b].arms = bandits[b].arms]_vars

C2_Witness ==
    /\ ret.op = "select" /\ ret.status = "ok" /\ ret.inst = 1
    /\ t[1] >= 3
    /\ Len(bandits[1].arms) >= 2
    /\ ret.value = Some(Len(bandits[1].arms) - 1)
    /\ \E i \in DOMAIN bandits[1].arms : bandits[1].arms[i] # << args[1][2], args[1][3] >>

\* C3: construction with N < 1, init_sd <= 0 or observation_noise <= 0 fails
\* and yields no instance: every instance there is was constructed with
\* N >= 1, init_sd > 0 and observation_noise > 0.
C3_InvalidArgumentsYieldNoInstance ==
    \A b \in DOMAIN bandits : Valid(b)

\* C4: update(reward) on a bandit on which select() was never called fails
\* and changes no belief.
C4_UpdateBeforeSelectFails ==
    [][\A b \in DOMAIN bandits :
          (Called(b, "update") /\ bandits[b].last_arm_pulled = None) =>
              /\ ret'.status # "ok"
              /\ bandits' = bandits]_vars

C4_Witness ==
    /\ ret.op = "update" /\ ret.status = "TypeError" /\ ret.inst = 1
    /\ Valid(1)
    /\ bandits[1].last_arm_pulled = None
    /\ Len(bandits[1].arms) = MaxN

\* C5: in every reachable state of a bandit constructed as documented,
\* every arm's standard deviation is strictly greater than 0.
C5_StandardDeviationPositive ==
    \A b \in DOMAIN bandits :
        Valid(b) => \A i \in DOMAIN bandits[b].arms : FGt(bandits[b].arms[i][2], 0)

\* C6: for a positive prior standard deviation and a positive
\* observation_noise, the updated arm's standard deviation is strictly less
\* after update(reward) than before, whatever the reward.
C6_StandardDeviationShrinks ==
    [][\A b \in DOMAIN bandits :
          (/\ Called(b, "update") /\ ret'.status = "ok"
           /\ FGt(ArmAt(bandits[b])[2], 0)
           /\ FGt(bandits[b].observation_noise, 0)) =>
              FLt(ArmAt(bandits'[b])[2], ArmAt(bandits[b])[2])]_vars

\* C7: after update(reward) on an arm with prior mean m, a positive prior
\* standard deviation and a positive observation_noise, the new mean lies
\* strictly between m and reward when they differ and equals m when they
\* are equal.
C7_MeanBetweenPriorAndReward ==
    [][\A b \in DOMAIN bandits :
          (/\ Called(b, "update") /\ ret'.status = "ok"
           /\ FGt(ArmAt(bandits[b])[2], 0)
           /\ FGt(bandits[b].observation_noise, 0)) =>
              LET m == ArmAt(bandits[b])[1]
                  reward == ret'.input[1]
                  new == ArmAt(bandits'[b])[1]
              IN  /\ FLt(m, reward) => FLt(m, new) /\ FLt(new, reward)
                  /\ FLt(reward, m) => FLt(reward, new) /\ FLt(new, m)
                  /\ FEq(m, reward) => FEq(new, m)]_vars

\* C8: select() draws one sample per arm and returns the lowest index among
\* the arms whose sample equals the largest sample; when every arm's sample
\* is the same, it returns index 0.
C8_SelectReturnsFirstMaximum ==
    \A b \in DOMAIN bandits :
        (ret.op = "select" /\ ret.inst = b /\ ret.status = "ok") =>
            LET keys == ret.input
                i == ret.value[1] + 1
            IN  /\ DOMAIN keys = DOMAIN bandits[b].arms
                /\ i \in DOMAIN keys
                /\ \A j \in DOMAIN keys : ~FGt(keys[j], keys[i])
                /\ \A j \in DOMAIN keys : j < i => FLt(keys[j], keys[i])
                /\ (\A j \in DOMAIN keys : keys[j] = keys[1]) => ret.value = Some(0)

C8_Witness ==
    /\ ret.op = "select" /\ ret.status = "ok" /\ ret.inst = 1
    /\ Len(ret.input) = MaxN
    /\ \A j \in DOMAIN ret.input : ret.input[j] = ret.input[1]
    /\ ret.value = Some(0)
    /\ t[1] >= 3

\* C9: two bandits constructed with the same arguments and given the same
\* deviates and rewards call by call pass through the same states, however
\* their calls interleave; and a call on one changes nothing of the other.
SameInputs(k) == \A j \in 1..k : hist[1][j].input = hist[2][j].input

LockStep ==
    \A k \in 1..Len(hist[1]) :
        (k <= Len(hist[2]) /\ SameInputs(k)) => hist[1][k].state = hist[2][k].state

NoInterference ==
    \A b \in DOMAIN bandits : \A c \in DOMAIN bandits :
        (c # b /\ (Called(b, "select") \/ Called(b, "update"))) => bandits'[c] = bandits[c]

C9_IdenticalTrajectories == [] LockStep /\ [][NoInterference]_vars

C9_Witness ==
    /\ Len(hist[1]) = PairCalls /\ Len(hist[2]) = PairCalls
    /\ SameInputs(PairCalls)
    /\ hist[1][1].input[1] = "select"
    /\ hist[1][PairCalls].input[1] = "update"
    /\ ret.status = "ok"
    /\ hist[1][PairCalls].state.arms # LTSInit(args[1][1], args[1][2], args[1][3], args[1][4]).arms
    /\ random.stream[0] # random.stream[StreamLen - 1]

\* C10: once select() has been called the bandit stays selected: update
\* leaves last_selected set, a second update(reward2) right after an update
\* succeeds and applies the conjugate update to the same arm's belief as the
\* first update left it, and select() is accepted in either state and leaves
\* the bandit selected.
C10_SecondUpdateSucceeds ==
    [][\A b \in DOMAIN bandits :
          Valid(b) =>
              /\ (bandits[b].last_arm_pulled # None => bandits'[b].last_arm_pulled # None)
              /\ (/\ Called(b, "update")
                  /\ ret.inst = b /\ ret.op = "update" /\ ret.status = "ok") =>
                     /\ ret'.status = "ok"
                     /\ bandits'[b].last_arm_pulled = bandits[b].last_arm_pulled
                     /\ ArmAt(bandits'[b]) = Posterior(ArmAt(bandits[b]), bandits[b], ret'.input[1])
              /\ Called(b, "select") =>
                     /\ ret'.status = "ok"
                     /\ bandits'[b].last_arm_pulled # None]_vars

\* What does hold of the two states, for any arguments: last_arm_pulled is
\* never reset, and an update right after an update is not refused for want
\* of a selection.
StaysSelected ==
    [][\A b \in DOMAIN bandits :
          /\ (bandits[b].last_arm_pulled # None => bandits'[b].last_arm_pulled # None)
          /\ (Called(b, "update") /\ ret.inst = b /\ ret.op = "update" /\ ret.status = "ok") =>
                 ret'.status \in {"ok", "ZeroDivisionError"}]_vars

====
